---------------------------- MODULE Spec2Model ----------------------------
(***************************************************************************)
(* A model of frame_structure.py, the 5G NR frame structure visualizer.    *)
(*                                                                         *)
(* The script is run top to bottom on every user interaction: one run      *)
(* reads the widgets of the selected module, computes, and renders.  A run *)
(* is one action here; its inputs (the widget values) are chosen by the    *)
(* action, its results are the script's variables after the run.  Between  *)
(* two runs the script keeps nothing (Rerun).                              *)
(*                                                                         *)
(* Python floats are modelled in two ways.  The slot durations and TDD     *)
(* periods (1.0 / 2**mu, 0.625, ...) are dyadic rationals of a few bits,   *)
(* which a double holds exactly: they are exact fractions [num, den], and  *)
(* so are the code rate (a slider value k / 20), the throughput and the    *)
(* latencies, where the rounding a double adds to the products is not      *)
(* modelled.  The TDD percentages and the slot efficiency are IEEE 754     *)
(* doubles: a sign and a magnitude in units of 2^-60, of which every       *)
(* operation keeps the 53 leading bits, rounding to nearest, ties to even. *)
(***************************************************************************)
EXTENDS Integers, Sequences, FiniteSets, TLC

VARIABLES
    pc,                 \* "idle": no run yet; "done": the run ended; "failed": it raised
    app_mode,           \* the module the run rendered: "frame", "grid", "tdd", "time"
    error,              \* the exception that ended the run, or "none"
    scs_khz,            \* scs_khz / scs_grid / scs_tdd: the selected subcarrier spacing
    params,             \* params / params_grid / params_tdd: get_slot_params' result
    \* ---- frame & slot structure module
    view_level, slot_idx, show_timing,
    \* ---- resource grid module
    num_rbs, num_symbols, show_dmrs, show_pdcch, show_pdsch,
    dmrs_type, dmrs_symbols, coreset_duration,
    grid_allocation, total_res, dmrs_res, pdcch_res, pdsch_res, empty_res,
    modulation, code_rate, mimo_layers, bits_per_symbol,
    slots_per_second, bits_per_slot, throughput_mbps,
    \* ---- TDD configuration module
    tdd_periodicity_ms, num_dl_slots, num_dl_symbols, num_ul_slots, num_ul_symbols,
    slots_in_period, slot_pattern, partial, chart_text, colors_partial,
    total_dl_symbols, total_ul_symbols, total_symbols,
    dl_pct, ul_pct, guard_pct, pattern_str,
    rendered,           \* the elements the TDD module has drawn so far, in order
    \* ---- time domain analysis module
    alloc_type, start_symbol, duration_symbols, mini_start, mini_duration,
    show_multiple_slots, num_slots_show,
    allocation, colors, symbol_duration_us, latency_us, efficiency,
    symbols_used,       \* int(efficiency * 14 / 100), the "Symbols Used" figure
    total_time_ms,
    \* ---- the helper functions, called on their own
    call_fn,            \* the helper called: its name, or "none"
    call_args,          \* the arguments of the call
    call_result,        \* what the call returned, or the exception it raised
    dmrs_positions_default,  \* the list object that is create_dmrs_pattern's default
    first_call          \* a run or call an observer recorded: [fn, args, result,
                        \* later: whether there was a run or call since]

common_vars == <<pc, app_mode, error, scs_khz, params>>

frame_vars == <<view_level, slot_idx, show_timing>>

grid_vars == <<num_rbs, num_symbols, show_dmrs, show_pdcch, show_pdsch,
               dmrs_type, dmrs_symbols, coreset_duration,
               grid_allocation, total_res, dmrs_res, pdcch_res, pdsch_res, empty_res,
               modulation, code_rate, mimo_layers, bits_per_symbol,
               slots_per_second, bits_per_slot, throughput_mbps>>

tdd_vars == <<tdd_periodicity_ms, num_dl_slots, num_dl_symbols, num_ul_slots,
              num_ul_symbols, slots_in_period, slot_pattern, partial, chart_text,
              colors_partial, total_dl_symbols, total_ul_symbols, total_symbols,
              dl_pct, ul_pct, guard_pct, pattern_str, rendered>>

time_vars == <<alloc_type, start_symbol, duration_symbols, mini_start, mini_duration,
               show_multiple_slots, num_slots_show, allocation, colors,
               symbol_duration_us, latency_us, efficiency, symbols_used, total_time_ms>>

call_vars == <<call_fn, call_args, call_result, dmrs_positions_default, first_call>>

vars == <<common_vars, frame_vars, grid_vars, tdd_vars, time_vars, call_vars>>

----------------------------------------------------------------------------
(* Bounds of the model *)

\* Grid sizes: num_rbs in 1..MaxRBs, num_symbols in 1..MaxSymbols.
MaxRBs == 2
MaxSymbols == 3
\* The DMRS symbol list holds at most this many indices.
MaxDmrsPositions == 2
\* Full UL slots and UL symbols of the partial slot are drawn from 0..this.
MaxUlSlots == 2
MaxUlSymbols == 2
\* get_slot_params is called with every scs_khz from -1 to this.
MaxScsKhz == 250

(* Program constants *)

\* st.slider("Full DL Slots", 0, 10, 7)
MaxFullDlSlots == 10
\* st.slider("DL Symbols in Partial Slot", 0, 13, 10)
MaxPartialDlSymbols == 13
\* st.slider("CORESET Duration (symbols)", 1, 3, 2)
MaxCoresetDuration == 3
\* st.slider("Number of RBs", 10, 100, 52)
MinRBs == 10
\* st.slider("OFDM Symbols", 7, 14, 14)
MinSymbols == 7

----------------------------------------------------------------------------
(* Values a script variable has when the run never assigned it *)

UnsetStr == "unset"
UnsetInt == 0 - 1
UnsetSeq == << >>
UnsetRat == [num |-> 0, den |-> 0]
UnsetParams == [raised |-> "unset"]
UnsetDbl == [neg |-> FALSE, mag |-> << >>]
NoCall == [fn |-> "none"]

----------------------------------------------------------------------------
(* Exact arithmetic on the script's floats *)

Rat(n, d) == [num |-> n, den |-> d]

RatEq(a, b) == a.num * b.den = b.num * a.den

RatMul(a, b) == Rat(a.num * b.num, a.den * b.den)

\* a / b
RatDiv(a, b) == Rat(a.num * b.den, a.den * b.num)

\* a - b
RatSub(a, b) == Rat(a.num * b.den - b.num * a.den, a.den * b.den)

RECURSIVE Gcd(_, _)
Gcd(a, b) == IF b = 0 THEN a ELSE Gcd(b, a % b)

\* The same number in lowest terms (num >= 0, den > 0)
RatNorm(a) == LET g == Gcd(a.num, a.den) IN Rat(a.num \div g, a.den \div g)

\* Whether a (den > 0) is a whole number
RatIsInt(a) == a.num % a.den = 0

\* Python's int() of a float: truncation towards zero (den > 0)
IntTrunc(a) == IF a.num >= 0 THEN a.num \div a.den ELSE -((-a.num) \div a.den)

Min(a, b) == IF a < b THEN a ELSE b

Max(a, b) == IF a > b THEN a ELSE b

\* list(range(a, b))
Range(a, b) == [i \in 1..Max(b - a, 0) |-> a + i - 1]

\* [x] * n
Repeat(x, n) == [i \in 1..Max(n, 0) |-> x]

\* How many entries of seq equal x
Count(seq, x) == Cardinality({i \in 1..Len(seq) : seq[i] = x})

----------------------------------------------------------------------------
(* Double-precision arithmetic on the percentages *)

\* A magnitude is four limbs <<m1, m2, m3, m4>>, most significant first, of 20
\* bits each: m1 is the integer part and m2, m3, m4 are 60 fractional bits.  The
\* percentages are below 2^12 and, unless 0, at least 2^-4, so every double among
\* them is a multiple of 2^-56 and is held exactly.
LimbBase == 2^20

\* The number of bits of a double's significand
SignificandBits == 53

MagZero == <<0, 0, 0, 0>>

\* float(n) of an integer below 2^20 in magnitude
DblFromInt(n) == [neg |-> n < 0, mag |-> <<IF n < 0 THEN 0 - n ELSE n, 0, 0, 0>>]

\* Limbs that grew to LimbBase or more by an addition, carried into the next
MagCarry(m) ==
    LET c4 == m[4] \div LimbBase
        c3 == (m[3] + c4) \div LimbBase
        c2 == (m[2] + c3) \div LimbBase
    IN <<m[1] + c2, (m[2] + c3) % LimbBase, (m[3] + c4) % LimbBase, m[4] % LimbBase>>

MagAdd(x, y) == MagCarry(<<x[1] + y[1], x[2] + y[2], x[3] + y[3], x[4] + y[4]>>)

MagLess(x, y) ==
    \E i \in 1..4 : x[i] < y[i] /\ \A j \in 1..i - 1 : x[j] = y[j]

\* x - y for x >= y, borrowing from the next limb
MagSub(x, y) ==
    LET b4 == IF x[4] < y[4] THEN 1 ELSE 0
        b3 == IF x[3] - b4 < y[3] THEN 1 ELSE 0
        b2 == IF x[2] - b3 < y[2] THEN 1 ELSE 0
    IN <<x[1] - b2 - y[1],
         x[2] - b3 - y[2] + b2 * LimbBase,
         x[3] - b4 - y[3] + b3 * LimbBase,
         x[4] - y[4] + b4 * LimbBase>>

\* The exact sum of two signed numbers
ExactAdd(x, y) ==
    IF x.neg = y.neg THEN [neg |-> x.neg, mag |-> MagAdd(x.mag, y.mag)]
    ELSE IF x.mag = y.mag THEN [neg |-> FALSE, mag |-> MagZero]
    ELSE IF MagLess(x.mag, y.mag) THEN [neg |-> y.neg, mag |-> MagSub(y.mag, x.mag)]
    ELSE [neg |-> x.neg, mag |-> MagSub(x.mag, y.mag)]

ExactNeg(x) == [neg |-> (~x.neg) /\ x.mag # MagZero, mag |-> x.mag]

\* The number of bits of a limb, and of a magnitude
LimbBits(n) == CHOOSE k \in 0..20 : n < 2^k /\ (k = 0 \/ n >= 2^(k - 1))

MagBits(m) ==
    IF m[1] # 0 THEN 60 + LimbBits(m[1])
    ELSE IF m[2] # 0 THEN 40 + LimbBits(m[2])
    ELSE IF m[3] # 0 THEN 20 + LimbBits(m[3])
    ELSE LimbBits(m[4])

\* A magnitude rounded to SignificandBits bits, to nearest, ties to even; sticky
\* says that the exact value lies above the magnitude, by less than one unit.
\* The bits to drop all lie in the last limb.
MagRound(m, sticky) ==
    LET d == MagBits(m) - SignificandBits
    IN IF d <= 0 THEN m
       ELSE LET unit == 2^d
                low == m[4] % unit
                half == unit \div 2
                odd == IF d = 20 THEN m[3] % 2 = 1 ELSE (m[4] \div unit) % 2 = 1
                up == \/ low > half
                      \/ low = half /\ (sticky \/ odd)
            IN MagCarry(<<m[1], m[2], m[3], m[4] - low + (IF up THEN unit ELSE 0)>>)

\* a * 2^60 / b, the quotient's integer part and whether there is a remainder
\* (0 <= a < 2^20, 0 < b < 2^11)
MagQuotient(a, b) ==
    LET r1 == a % b
        r2 == (r1 * LimbBase) % b
        r3 == (r2 * LimbBase) % b
        r4 == (r3 * LimbBase) % b
    IN [mag |-> <<a \div b, (r1 * LimbBase) \div b, (r2 * LimbBase) \div b,
                  (r3 * LimbBase) \div b>>,
        sticky |-> r4 # 0]

\* a / b of two ints (a >= 0, b > 0): Python's true division, correctly rounded
DblDiv(a, b) ==
    LET q == MagQuotient(a, b)
    IN [neg |-> FALSE, mag |-> MagRound(q.mag, q.sticky)]

\* x - y of two doubles
DblSub(x, y) ==
    LET e == ExactAdd(x, ExactNeg(y))
    IN [neg |-> e.neg, mag |-> MagRound(e.mag, FALSE)]

\* x * k of a double and an int (0 < k < 2^10)
DblMulInt(x, k) ==
    [neg |-> x.neg,
     mag |-> MagRound(MagCarry(<<x.mag[1] * k, x.mag[2] * k, x.mag[3] * k, x.mag[4] * k>>),
                      FALSE)]

\* m / b of a magnitude and an int, the quotient's integer part and whether there
\* is a remainder (0 < b < 2^10)
MagDivInt(m, b) ==
    LET r1 == m[1] % b
        r2 == (r1 * LimbBase + m[2]) % b
        r3 == (r2 * LimbBase + m[3]) % b
        r4 == (r3 * LimbBase + m[4]) % b
    IN [mag |-> <<m[1] \div b, (r1 * LimbBase + m[2]) \div b,
                  (r2 * LimbBase + m[3]) \div b, (r3 * LimbBase + m[4]) \div b>>,
        sticky |-> r4 # 0]

\* x / b of a double and an int, for a quotient of 2^-7 or more (whose 53 bits
\* are all above 2^-60)
DblDivInt(x, b) ==
    LET q == MagDivInt(x.mag, b)
    IN [neg |-> x.neg, mag |-> MagRound(q.mag, q.sticky)]

\* int(x) of a double: the integer part, towards zero
DblTrunc(x) == IF x.neg THEN 0 - x.mag[1] ELSE x.mag[1]

----------------------------------------------------------------------------
(* Helper functions of the script *)

mu_map == [k \in {15, 30, 60, 120, 240} |->
             CASE k = 15 -> 0 [] k = 30 -> 1 [] k = 60 -> 2 [] k = 120 -> 3 [] k = 240 -> 4]

\* Mutant: slots_per_subframe = 2 * mu, for 2 ** mu
get_slot_params_times(scs) ==
    IF scs \notin DOMAIN mu_map
    THEN [raised |-> "KeyError"]
    ELSE LET mu == mu_map[scs]
         IN [raised |-> "none",
             mu |-> mu,
             slot_duration_ms |-> Rat(1, 2^mu),
             slots_per_subframe |-> 2 * mu,
             slots_per_frame |-> 10 * (2 * mu),
             symbols_per_slot |-> 14]

\* Mutant: slots_per_frame = 14 * slots_per_subframe (the symbols of a slot, for the
\* subframes of a frame)
get_slot_params_frame14(scs) ==
    IF scs \notin DOMAIN mu_map
    THEN [raised |-> "KeyError"]
    ELSE LET mu == mu_map[scs]
         IN [raised |-> "none",
             mu |-> mu,
             slot_duration_ms |-> Rat(1, 2^mu),
             slots_per_subframe |-> 2^mu,
             slots_per_frame |-> 14 * 2^mu,
             symbols_per_slot |-> 14]

\* Mutant: mu_map.get(scs_khz, 0), an unknown spacing falls back to mu = 0
get_slot_params_fallback(scs) ==
    LET mu == IF scs \in DOMAIN mu_map THEN mu_map[scs] ELSE 0
    IN [raised |-> "none",
        mu |-> mu,
        slot_duration_ms |-> Rat(1, 2^mu),
        slots_per_subframe |-> 2^mu,
        slots_per_frame |-> 10 * 2^mu,
        symbols_per_slot |-> 14]

\* get_slot_params(scs_khz); mu_map[scs_khz] raises KeyError for any other key
get_slot_params(scs) ==
    IF scs \notin DOMAIN mu_map
    THEN [raised |-> "KeyError"]
    ELSE LET mu == mu_map[scs]
             slot_duration_ms == Rat(1, 2^mu)
             slots_per_subframe == 2^mu
             slots_per_frame == 10 * slots_per_subframe
         IN [raised |-> "none",
             mu |-> mu,
             slot_duration_ms |-> slot_duration_ms,
             slots_per_subframe |-> slots_per_subframe,
             slots_per_frame |-> slots_per_frame,
             symbols_per_slot |-> 14]

\* np.zeros((num_symbols, num_rbs * 12), dtype=int); a negative dimension raises
\* ValueError before anything is allocated
Zeros(nsym, nsc) == [s \in 0..nsym - 1 |-> [k \in 0..nsc - 1 |-> 0]]

ZerosRaises(nsym, nsc) == nsym < 0 \/ nsc < 0

\* The row numpy addresses with index idx of a grid of nsym rows (a negative idx
\* counts from the end), and whether the index is out of bounds (IndexError)
NumpyRow(idx, nsym) == IF idx < 0 THEN idx + nsym ELSE idx

NumpyRowRaises(idx, nsym) == NumpyRow(idx, nsym) < 0 \/ NumpyRow(idx, nsym) >= nsym

\* grid[row, cols] = val, for the columns in cols
SetRow(grid, row, cols, val) ==
    [grid EXCEPT ![row] = [k \in DOMAIN grid[row] |-> IF k \in cols THEN val ELSE grid[row][k]]]

\* Mutant: the slice 1::2, the odd subcarriers
EverySecondFromOne(nsc) == {k \in 0..nsc - 1 : k % 2 = 1}

\* The columns of the slice ::2 of a row of nsc subcarriers
EverySecond(nsc) == {k \in 0..nsc - 1 : k % 2 = 0}

\* Mutant: the boundary test is sc_idx < nsc - 6, which drops the last group
Type2StartsShort(nsc) == {sc_idx \in 0..nsc - 1 : sc_idx % 6 = 0 /\ sc_idx < nsc - 6}

\* The sc_idx for which Type2's inner loop assigns: range(0, nsc, 6), if sc_idx < nsc - 1
Type2Starts(nsc) == {sc_idx \in 0..nsc - 1 : sc_idx % 6 = 0 /\ sc_idx < nsc - 1}

\* The columns Type2's inner loop assigns: the slices sc_idx:sc_idx+2 (a slice is
\* clipped to the row)
Type2Columns(nsc) ==
    {k \in 0..nsc - 1 : \E sc_idx \in Type2Starts(nsc) : sc_idx <= k /\ k < Min(sc_idx + 2, nsc)}

\* Mutant: an index at or past num_symbols ends the loop (break) instead of
\* being skipped
RECURSIVE DmrsLoopBreaks(_, _, _, _, _, _)
DmrsLoopBreaks(grid, cols, assigns, positions, nsym, i) ==
    IF i > Len(positions) THEN [raised |-> "none", grid |-> grid]
    ELSE LET sym_idx == positions[i]
         IN IF sym_idx >= nsym THEN [raised |-> "none", grid |-> grid]
            ELSE IF assigns
            THEN IF NumpyRowRaises(sym_idx, nsym)
                 THEN [raised |-> "IndexError", grid |-> <<>>]
                 ELSE DmrsLoopBreaks(SetRow(grid, NumpyRow(sym_idx, nsym), cols, 1),
                                     cols, assigns, positions, nsym, i + 1)
            ELSE DmrsLoopBreaks(grid, cols, assigns, positions, nsym, i + 1)

\* Mutant: the loop without the test "if sym_idx < num_symbols"
RECURSIVE DmrsLoopUnguarded(_, _, _, _, _, _)
DmrsLoopUnguarded(grid, cols, assigns, positions, nsym, i) ==
    IF i > Len(positions) THEN [raised |-> "none", grid |-> grid]
    ELSE LET sym_idx == positions[i]
         IN IF assigns
            THEN IF NumpyRowRaises(sym_idx, nsym)
                 THEN [raised |-> "IndexError", grid |-> <<>>]
                 ELSE DmrsLoopUnguarded(SetRow(grid, NumpyRow(sym_idx, nsym), cols, 1),
                                        cols, assigns, positions, nsym, i + 1)
            ELSE DmrsLoopUnguarded(grid, cols, assigns, positions, nsym, i + 1)

\* The loop over dmrs_positions, from its i-th entry on.  assigns: whether the body
\* under "if sym_idx < num_symbols" indexes the grid at all.
RECURSIVE DmrsLoop(_, _, _, _, _, _)
DmrsLoop(grid, cols, assigns, positions, nsym, i) ==
    IF i > Len(positions) THEN [raised |-> "none", grid |-> grid]
    ELSE LET sym_idx == positions[i]
         IN IF sym_idx < nsym /\ assigns
            THEN IF NumpyRowRaises(sym_idx, nsym)
                 THEN [raised |-> "IndexError", grid |-> <<>>]
                 ELSE DmrsLoop(SetRow(grid, NumpyRow(sym_idx, nsym), cols, 1),
                               cols, assigns, positions, nsym, i + 1)
            ELSE DmrsLoop(grid, cols, assigns, positions, nsym, i + 1)

\* Mutant: the second branch is a plain else, as in the reference-signal view:
\* every type but 'Type1' is drawn as Type2
create_dmrs_pattern_else_type2(nrb, nsym, dtype, positions) ==
    LET nsc == nrb * 12
        grid == Zeros(nsym, nsc)
    IN IF ZerosRaises(nsym, nsc) THEN [raised |-> "ValueError", grid |-> <<>>]
       ELSE IF dtype = "Type1"
            THEN DmrsLoop(grid, EverySecond(nsc), TRUE, positions, nsym, 1)
            ELSE DmrsLoop(grid, Type2Columns(nsc), Type2Starts(nsc) # {}, positions, nsym, 1)

\* create_dmrs_pattern(num_rbs, num_symbols, dmrs_type, dmrs_positions)
create_dmrs_pattern(nrb, nsym, dtype, positions) ==
    LET nsc == nrb * 12
        grid == Zeros(nsym, nsc)
    IN IF ZerosRaises(nsym, nsc) THEN [raised |-> "ValueError", grid |-> <<>>]
       ELSE CASE dtype = "Type1" ->
                     DmrsLoop(grid, EverySecond(nsc), TRUE, positions, nsym, 1)
              [] dtype = "Type2" ->
                     DmrsLoop(grid, Type2Columns(nsc), Type2Starts(nsc) # {}, positions, nsym, 1)
              [] OTHER -> [raised |-> "none", grid |-> grid]

\* Mutant: range(coreset_duration) without the clamp to num_symbols: the rows past
\* the grid's end are out of bounds
create_pdcch_region_unclamped(nrb, nsym, duration) ==
    IF ZerosRaises(nsym, nrb * 12) THEN [raised |-> "ValueError", grid |-> <<>>]
    ELSE IF duration > nsym THEN [raised |-> "IndexError", grid |-> <<>>]
    ELSE [raised |-> "none",
          grid |-> [s \in 0..nsym - 1 |-> [k \in 0..nrb * 12 - 1 |->
                      IF s < duration THEN 1 ELSE 0]]]

\* The loop of create_pdcch_region, from row sym_idx on
RECURSIVE PdcchLoop(_, _, _)
PdcchLoop(grid, sym_idx, stop) ==
    IF sym_idx >= stop THEN grid
    ELSE PdcchLoop(SetRow(grid, sym_idx, DOMAIN grid[sym_idx], 1), sym_idx + 1, stop)

\* create_pdcch_region(num_rbs, num_symbols, coreset_duration)
create_pdcch_region(nrb, nsym, duration) ==
    IF ZerosRaises(nsym, nrb * 12) THEN [raised |-> "ValueError", grid |-> <<>>]
    ELSE [raised |-> "none",
          grid |-> PdcchLoop(Zeros(nsym, nrb * 12), 0, Min(duration, nsym))]

----------------------------------------------------------------------------
(* Resource grid module *)

\* grid[mask == 1] = val
Override(grid, mask, val) ==
    [s \in DOMAIN grid |-> [k \in DOMAIN grid[s] |->
        IF mask[s][k] = 1 THEN val ELSE grid[s][k]]]

\* grid[:, :] = val
Fill(grid, val) == [s \in DOMAIN grid |-> [k \in DOMAIN grid[s] |-> val]]

\* Mutant: the DMRS override is applied before the PDCCH one
BuildGridDmrsFirst(nrb, nsym, pdsch, pdcch, duration, dmrs, dtype, positions) ==
    LET g0 == Zeros(nsym, nrb * 12)
        g1 == IF pdsch THEN Fill(g0, 1) ELSE g0
        g2 == IF dmrs
              THEN Override(g1, create_dmrs_pattern(nrb, nsym, dtype, positions).grid, 3)
              ELSE g1
        g3 == IF pdcch
              THEN Override(g2, create_pdcch_region(nrb, nsym, duration).grid, 2)
              ELSE g2
    IN g3

\* Mutant: the DMRS override leaves out the cells the PDCCH override took
BuildGridDmrsOutsideCoreset(nrb, nsym, pdsch, pdcch, duration, dmrs, dtype, positions) ==
    LET g0 == Zeros(nsym, nrb * 12)
        g1 == IF pdsch THEN Fill(g0, 1) ELSE g0
        g2 == IF pdcch
              THEN Override(g1, create_pdcch_region(nrb, nsym, duration).grid, 2)
              ELSE g1
        mask == create_dmrs_pattern(nrb, nsym, dtype, positions).grid
        g3 == IF dmrs
              THEN [s \in DOMAIN g2 |-> [k \in DOMAIN g2[s] |->
                       IF mask[s][k] = 1 /\ g2[s][k] # 2 THEN 3 ELSE g2[s][k]]]
              ELSE g2
    IN g3

\* Mutant: the PDSCH fill comes last and takes every cell back
BuildGridPdschLast(nrb, nsym, pdsch, pdcch, duration, dmrs, dtype, positions) ==
    LET g0 == Zeros(nsym, nrb * 12)
        g1 == IF pdcch
              THEN Override(g0, create_pdcch_region(nrb, nsym, duration).grid, 2)
              ELSE g0
        g2 == IF dmrs
              THEN Override(g1, create_dmrs_pattern(nrb, nsym, dtype, positions).grid, 3)
              ELSE g1
        g3 == IF pdsch THEN Fill(g2, 1) ELSE g2
    IN g3

\* The grid construction: PDSCH fill, then the PDCCH override, then the DMRS one
BuildGrid(nrb, nsym, pdsch, pdcch, duration, dmrs, dtype, positions) ==
    LET total_subcarriers == nrb * 12
        g0 == Zeros(nsym, total_subcarriers)
        g1 == IF pdsch THEN Fill(g0, 1) ELSE g0
        g2 == IF pdcch
              THEN Override(g1, create_pdcch_region(nrb, nsym, duration).grid, 2)
              ELSE g1
        g3 == IF dmrs
              THEN Override(g2, create_dmrs_pattern(nrb, nsym, dtype, positions).grid, 3)
              ELSE g2
    IN g3

\* The cells of a grid, and np.sum(grid == val)
Columns(grid) == IF DOMAIN grid = {} THEN {} ELSE DOMAIN grid[CHOOSE s \in DOMAIN grid : TRUE]

Cells(grid) == (DOMAIN grid) \X Columns(grid)

\* Mutant: np.sum(grid >= val)
CountGe(grid, val) == Cardinality({c \in Cells(grid) : grid[c[1]][c[2]] >= val})

CountEq(grid, val) == Cardinality({c \in Cells(grid) : grid[c[1]][c[2]] = val})


\* The sequences of at most n distinct elements of S: what st.multiselect returns
DistinctSeqs(S, n) ==
    {q \in UNION {[1..m -> S] : m \in 0..n} :
        \A i, j \in DOMAIN q : i # j => q[i] # q[j]}

GridScsOptions == {15, 30, 60, 120}

\* st.selectbox("Modulation", ["QPSK", "16-QAM", "64-QAM", "256-QAM"], index=2)
ModulationOptions == {"QPSK", "16-QAM", "64-QAM", "256-QAM"}

\* st.slider("Code Rate", 0.1, 1.0, 0.75, 0.05): 0.1, 0.15, ..., 1.0
CodeRates == {Rat(k, 20) : k \in 2..20}

\* st.selectbox("MIMO Layers", [1, 2, 4, 8], index=1)
MimoOptions == {1, 2, 4, 8}

\* {'QPSK': 2, '16-QAM': 4, '64-QAM': 6, '256-QAM': 8}
BitsPerSymbol == [m \in ModulationOptions |->
                    CASE m = "QPSK" -> 2 [] m = "16-QAM" -> 4
                      [] m = "64-QAM" -> 6 [] m = "256-QAM" -> 8]

\* Mutant: 1000 * params_grid['slot_duration_ms']
SlotsPerSecondTimes(p) == RatNorm(RatMul(Rat(1000, 1), p.slot_duration_ms))

\* slots_per_second = 1000 / params_grid['slot_duration_ms']
SlotsPerSecond(p) == RatNorm(RatDiv(Rat(1000, 1), p.slot_duration_ms))

\* bits_per_slot = pdsch_res * bits_per_symbol * code_rate * mimo_layers
BitsPerSlot(pdsch, bits, rate, layers) ==
    RatNorm(RatMul(RatMul(Rat(pdsch * bits, 1), rate), Rat(layers, 1)))

\* Mutant: bits_per_slot * slots_per_second / 1e3, kbps for Mbps
ThroughputKbps(bps, sps) == RatNorm(RatDiv(RatMul(bps, sps), Rat(10^3, 1)))

\* throughput_mbps = bits_per_slot * slots_per_second / 1e6
ThroughputMbps(bps, sps) == RatNorm(RatDiv(RatMul(bps, sps), Rat(10^6, 1)))

----------------------------------------------------------------------------
(* TDD configuration module *)

\* The options of "TDD Pattern Periodicity": 0.5, 0.625, 1.0, 1.25, 2.0, 2.5, 5.0, 10.0
TddPeriodicities ==
    {Rat(1, 2), Rat(5, 8), Rat(1, 1), Rat(5, 4), Rat(2, 1), Rat(5, 2), Rat(5, 1), Rat(10, 1)}

TddScsOptions == {15, 30, 60, 120}

\* Mutant: int(tdd_periodicity_ms * slot_duration_ms)
SlotsInPeriodTimes(periodicity, slot_duration) == IntTrunc(RatMul(periodicity, slot_duration))

\* slots_in_period = int(tdd_periodicity_ms / params_tdd['slot_duration_ms'])
SlotsInPeriod(periodicity, slot_duration) == IntTrunc(RatDiv(periodicity, slot_duration))

\* if num_dl_symbols > 0 or num_ul_symbols > 0
HasPartial(dl_sym, ul_sym) == dl_sym > 0 \/ ul_sym > 0

\* guard and partial = f"D{num_dl_symbols}G{guard}U{num_ul_symbols}", as its three numbers
PartialSlot(dl_sym, ul_sym) ==
    LET guard == 14 - dl_sym - ul_sym
    IN [dl |-> dl_sym, guard |-> guard, ul |-> ul_sym]

\* Mutant: the U slots are appended before the X slot
BuildSlotPatternUFirst(dl_slots, dl_sym, ul_slots, ul_sym, n) ==
    LET du == Repeat("D", dl_slots) \o Repeat("U", ul_slots)
        dux == IF HasPartial(dl_sym, ul_sym) THEN Append(du, "X") ELSE du
    IN dux \o Repeat("F", n - Len(dux))

\* slot_pattern: the D slots, the X slot if any, the U slots, then F while it is
\* shorter than n
BuildSlotPattern(dl_slots, dl_sym, ul_slots, ul_sym, n) ==
    LET d == Repeat("D", dl_slots)
        dx == IF HasPartial(dl_sym, ul_sym) THEN Append(d, "X") ELSE d
        dxu == dx \o Repeat("U", ul_slots)
    IN dxu \o Repeat("F", n - Len(dxu))

\* Mutant: the slice [:n] is left out
PrefixAll(seq, n) == seq

\* seq[:n]
Prefix(seq, n) ==
    IF n >= 0 THEN SubSeq(seq, 1, Min(n, Len(seq)))
    ELSE SubSeq(seq, 1, Max(Len(seq) + n, 0))

\* colors_partial of the partial slot detail: the three loops over range(...)
ColorsPartial(dl_sym, ul_sym) ==
    LET guard_count == 14 - dl_sym - ul_sym
    IN Repeat("blue", dl_sym)
       \o Repeat("yellow", (dl_sym + guard_count) - dl_sym)
       \o Repeat("green", 14 - (dl_sym + guard_count))

\* dl_pct = 100 * total_dl_symbols / total_symbols, and ul_pct likewise
Percent(symbols, total) == DblDiv(100 * symbols, total)

\* Mutant: 100 - dl_pct, the UL share is not taken off
GuardPctOfDl(dl, ul) == DblSub(DblFromInt(100), dl)

\* guard_pct = 100 - dl_pct - ul_pct
GuardPct(dl, ul) == DblSub(DblSub(DblFromInt(100), dl), ul)

\* The charts of the module, drawn before the ratios are computed: the pattern
\* chart, and the partial slot's if there is one
Charts(dl_sym, ul_sym) ==
    IF HasPartial(dl_sym, ul_sym) THEN <<"pattern_chart", "partial_slot_chart">>
    ELSE <<"pattern_chart">>

----------------------------------------------------------------------------
(* Time domain analysis module *)

TimeScsOptions == {15, 30, 60, 120}

\* The options of "Allocation Type" and of "Mini-slot Duration"
AllocTypes == {"Slot-based", "Non-slot-based", "Mini-slot"}

MiniDurations == {2, 4, 7}

\* st.slider(label, min_value, max_value, value) is given a default value outside
\* min_value..max_value
DefaultOutside(min_value, max_value, value) == value < min_value \/ value > max_value

\* allocation = [0] * 14, then for i in range(start, start + duration):
\* if i < 14: allocation[i] = 1.0
MarkSymbols(start, duration) ==
    [i \in 0..13 |-> IF start <= i /\ i < start + duration /\ i < 14 THEN 1 ELSE 0]

\* colors = ['lightgray'] * 14, and colors[i] = color in the same loop
ColorSymbols(start, duration, color) ==
    [i \in 0..13 |-> IF start <= i /\ i < start + duration /\ i < 14 THEN color
                     ELSE "lightgray"]

\* symbol_duration_us = params_time['slot_duration_ms'] * 1000 / 14
SymbolDurationUs(slot_duration) == RatNorm(RatDiv(RatMul(slot_duration, Rat(1000, 1)), Rat(14, 1)))

\* latency_us = duration * symbol_duration_us
LatencyUs(duration, symbol_duration) == RatNorm(RatMul(Rat(duration, 1), symbol_duration))

\* efficiency = 100.0 * duration / 14
Efficiency(duration) == DblDiv(100 * duration, 14)

\* int(efficiency * 14 / 100)
SymbolsUsed(eff) == DblTrunc(DblDivInt(DblMulInt(eff, 14), 100))

----------------------------------------------------------------------------
(* The runs of the script *)

GridUnset ==
    /\ num_rbs = UnsetInt /\ num_symbols = UnsetInt
    /\ show_dmrs = FALSE /\ show_pdcch = FALSE /\ show_pdsch = FALSE
    /\ dmrs_type = UnsetStr /\ dmrs_symbols = UnsetSeq /\ coreset_duration = UnsetInt
    /\ grid_allocation = UnsetSeq
    /\ total_res = UnsetInt /\ dmrs_res = UnsetInt /\ pdcch_res = UnsetInt
    /\ pdsch_res = UnsetInt /\ empty_res = UnsetInt
    /\ modulation = UnsetStr /\ code_rate = UnsetRat /\ mimo_layers = UnsetInt
    /\ bits_per_symbol = UnsetInt /\ slots_per_second = UnsetRat
    /\ bits_per_slot = UnsetRat /\ throughput_mbps = UnsetRat

TddUnset ==
    /\ tdd_periodicity_ms = UnsetRat
    /\ num_dl_slots = UnsetInt /\ num_dl_symbols = UnsetInt
    /\ num_ul_slots = UnsetInt /\ num_ul_symbols = UnsetInt
    /\ slots_in_period = UnsetInt /\ slot_pattern = UnsetSeq
    /\ partial = [dl |-> UnsetInt, guard |-> UnsetInt, ul |-> UnsetInt]
    /\ chart_text = UnsetSeq /\ colors_partial = UnsetSeq
    /\ total_dl_symbols = UnsetInt /\ total_ul_symbols = UnsetInt
    /\ total_symbols = UnsetInt
    /\ dl_pct = UnsetDbl /\ ul_pct = UnsetDbl /\ guard_pct = UnsetDbl
    /\ pattern_str = UnsetSeq /\ rendered = << >>

TimeUnset ==
    /\ alloc_type = UnsetStr /\ start_symbol = UnsetInt /\ duration_symbols = UnsetInt
    /\ mini_start = UnsetInt /\ mini_duration = UnsetInt
    /\ show_multiple_slots = FALSE /\ num_slots_show = UnsetInt
    /\ allocation = UnsetSeq /\ colors = UnsetSeq
    /\ symbol_duration_us = UnsetRat /\ latency_us = UnsetRat
    /\ efficiency = UnsetDbl /\ symbols_used = UnsetInt /\ total_time_ms = UnsetRat

Init ==
    /\ pc = "idle" /\ app_mode = "none" /\ error = "none"
    /\ scs_khz = UnsetInt /\ params = UnsetParams
    /\ view_level = UnsetStr /\ slot_idx = UnsetInt /\ show_timing = FALSE
    /\ GridUnset
    /\ TddUnset
    /\ TimeUnset
    /\ call_fn = "none" /\ call_args = NoCall /\ call_result = NoCall
    /\ dmrs_positions_default = <<2, 11>>
    /\ first_call = NoCall

\* The options of "View Level"
ViewLevels == {"Frame (10 ms)", "Subframe (1 ms)", "Slot", "Symbol"}

\* Every run and every call is one more since the observer's record, if there
\* is a record
Observed ==
    first_call' = IF first_call = NoCall THEN first_call
                  ELSE [first_call EXCEPT !.later = TRUE]

\* Module "Frame & Slot Structure", with the widgets drawn from the given sets:
\* params = get_slot_params(scs_khz); the slot index slider, 0 to
\* slots_per_frame - 1, is shown for the view level "Slot" only
RunFrameWith(ScsValues, Levels) ==
    /\ pc = "idle"
    /\ \E scs \in ScsValues, level \in Levels, timing \in BOOLEAN :
        LET p == get_slot_params(scs)
        IN \E idx \in IF level = "Slot" THEN 0..p.slots_per_frame - 1 ELSE {UnsetInt} :
            /\ scs_khz' = scs
            /\ params' = p
            /\ view_level' = level
            /\ slot_idx' = idx
            /\ show_timing' = timing
    /\ app_mode' = "frame"
    /\ pc' = "done"
    /\ error' = "none"
    /\ Observed
    /\ UNCHANGED <<grid_vars, tdd_vars, time_vars, call_fn, call_args, call_result,
                   dmrs_positions_default>>

\* The module with every value of its widgets
RunFrame == RunFrameWith(DOMAIN mu_map, ViewLevels)

\* Module "Resource Grid", with the widgets drawn from the given sets.  The DMRS
\* symbol positions are a selection among range(num_symbols).
RunGridWith(RBs, Symbols, ScsValues, Dmrs, Modulations, Rates, Layers) ==
    /\ pc = "idle"
    /\ \E nrb \in RBs, nsym \in Symbols, scs \in ScsValues,
          dmrs \in Dmrs, pdcch \in BOOLEAN, pdsch \in BOOLEAN :
        \E dtype \in IF dmrs THEN {"Type1", "Type2"} ELSE {UnsetStr},
           positions \in IF dmrs THEN DistinctSeqs(0..nsym - 1, MaxDmrsPositions)
                         ELSE {UnsetSeq},
           duration \in IF pdcch THEN 1..MaxCoresetDuration ELSE {UnsetInt} :
          \E grid \in {BuildGrid(nrb, nsym, pdsch, pdcch, duration, dmrs, dtype, positions)} :
          \E res \in {[dmrs |-> CountEq(grid, 3), pdcch |-> CountEq(grid, 2),
                       pdsch |-> CountEq(grid, 1), empty |-> CountEq(grid, 0)]} :
          \E mod \in Modulations, rate \in Rates, layers \in Layers :
               /\ num_rbs' = nrb
               /\ num_symbols' = nsym
               /\ show_dmrs' = dmrs
               /\ show_pdcch' = pdcch
               /\ show_pdsch' = pdsch
               /\ dmrs_type' = dtype
               /\ dmrs_symbols' = positions
               /\ coreset_duration' = duration
               /\ grid_allocation' = grid
               /\ total_res' = nrb * 12 * nsym
               /\ dmrs_res' = res.dmrs
               /\ pdcch_res' = res.pdcch
               /\ pdsch_res' = res.pdsch
               /\ empty_res' = res.empty
               /\ modulation' = mod
               /\ code_rate' = rate
               /\ mimo_layers' = layers
               /\ bits_per_symbol' = BitsPerSymbol[mod]
               /\ scs_khz' = scs
               /\ params' = get_slot_params(scs)
               /\ slots_per_second' = SlotsPerSecond(params')
               /\ bits_per_slot' = BitsPerSlot(pdsch_res', bits_per_symbol', rate, layers)
               /\ throughput_mbps' = ThroughputMbps(bits_per_slot', slots_per_second')
    /\ app_mode' = "grid"
    /\ pc' = "done"
    /\ error' = "none"
    /\ Observed
    /\ UNCHANGED <<frame_vars, tdd_vars, time_vars, call_fn, call_args, call_result,
                   dmrs_positions_default>>

\* The module with small grids, num_rbs >= 1 and num_symbols >= 1 (the sliders
\* offer 10..100 and 7..14), and the throughput widgets left at their defaults
RunGrid ==
    RunGridWith(1..MaxRBs, 1..MaxSymbols, GridScsOptions, BOOLEAN,
                {"64-QAM"}, {Rat(3, 4)}, {2})

\* The module with the size sliders at their minimum and the DMRS overlay off,
\* and every value of the throughput widgets
RunGridThroughput ==
    RunGridWith({MinRBs}, {MinSymbols}, GridScsOptions, {FALSE},
                ModulationOptions, CodeRates, MimoOptions)

\* Module "TDD Configuration", with the widgets drawn from the given sets.  With
\* slots_in_period = 0 the division by total_symbols raises ZeroDivisionError
\* after the pattern chart was drawn (chart_text), and the pattern string is
\* never shown.
RunTddWith(Periods, ScsValues, DlSlots, DlSymbols, UlSlots, UlSymbols) ==
    /\ pc = "idle"
    /\ \E periodicity \in Periods, scs \in ScsValues,
          dl_slots \in DlSlots, dl_sym \in DlSymbols,
          ul_slots \in UlSlots, ul_sym \in UlSymbols :
        LET p == get_slot_params(scs)
            n == SlotsInPeriod(periodicity, p.slot_duration_ms)
            pattern == BuildSlotPattern(dl_slots, dl_sym, ul_slots, ul_sym, n)
            dl_total == dl_slots * 14 + dl_sym
            ul_total == ul_slots * 14 + ul_sym
            total == n * 14
        IN /\ tdd_periodicity_ms' = periodicity
           /\ scs_khz' = scs
           /\ num_dl_slots' = dl_slots
           /\ num_dl_symbols' = dl_sym
           /\ num_ul_slots' = ul_slots
           /\ num_ul_symbols' = ul_sym
           /\ params' = p
           /\ slots_in_period' = n
           /\ slot_pattern' = pattern
           /\ partial' = IF HasPartial(dl_sym, ul_sym) THEN PartialSlot(dl_sym, ul_sym)
                         ELSE [dl |-> UnsetInt, guard |-> UnsetInt, ul |-> UnsetInt]
           /\ chart_text' = Prefix(pattern, n)
           /\ colors_partial' = IF HasPartial(dl_sym, ul_sym)
                                THEN ColorsPartial(dl_sym, ul_sym) ELSE UnsetSeq
           /\ total_dl_symbols' = dl_total
           /\ total_ul_symbols' = ul_total
           /\ total_symbols' = total
           /\ IF total = 0
              THEN /\ pc' = "failed"
                   /\ error' = "ZeroDivisionError"
                   /\ dl_pct' = UnsetDbl /\ ul_pct' = UnsetDbl /\ guard_pct' = UnsetDbl
                   /\ pattern_str' = UnsetSeq
                   /\ rendered' = Charts(dl_sym, ul_sym)
              ELSE /\ pc' = "done"
                   /\ error' = "none"
                   /\ dl_pct' = Percent(dl_total, total)
                   /\ ul_pct' = Percent(ul_total, total)
                   /\ guard_pct' = GuardPct(dl_pct', ul_pct')
                   /\ pattern_str' = Prefix(pattern, n)
                   /\ rendered' = Charts(dl_sym, ul_sym) \o <<"metrics", "pattern_string">>
    /\ app_mode' = "tdd"
    /\ Observed
    /\ UNCHANGED <<frame_vars, grid_vars, time_vars, call_fn, call_args, call_result,
                   dmrs_positions_default>>

\* The module with every value of its widgets (the UL sliders up to a bound)
RunTdd ==
    RunTddWith(TddPeriodicities, TddScsOptions, 0..MaxFullDlSlots,
               0..MaxPartialDlSymbols, 0..MaxUlSlots, 0..MaxUlSymbols)

\* One run of the Time Domain Analysis module.  The "Duration (symbols)" slider
\* has the default 10 and the maximum 14 - start_symbol: past start symbol 4 the
\* default is outside the slider's range, and the widget library either raises
\* (StreamlitAPIException) or returns a value of the range.
RunTime ==
    /\ pc = "idle"
    /\ \E scs \in TimeScsOptions, type \in AllocTypes, multiple \in BOOLEAN :
       \E start \in IF type = "Non-slot-based" THEN 0..13 ELSE {UnsetInt},
          mstart \in IF type = "Mini-slot" THEN 0..13 ELSE {UnsetInt},
          mduration \in IF type = "Mini-slot" THEN MiniDurations ELSE {UnsetInt} :
       \E rejected \in IF type = "Non-slot-based" /\ DefaultOutside(1, 14 - start, 10)
                        THEN BOOLEAN ELSE {FALSE} :
       \E duration \in IF type = "Non-slot-based" /\ ~rejected
                        THEN 1..14 - start ELSE {UnsetInt},
          nshow \in IF multiple /\ ~rejected THEN 2..10 ELSE {UnsetInt} :
           LET p == get_slot_params(scs)
               single == ~rejected /\ ~multiple
               used == CASE type = "Slot-based" -> 14
                         [] type = "Non-slot-based" -> duration
                         [] OTHER -> mduration
               sym_us == SymbolDurationUs(p.slot_duration_ms)
               eff == IF type = "Slot-based" THEN DblFromInt(100) ELSE Efficiency(used)
           IN /\ scs_khz' = scs
              /\ alloc_type' = type
              /\ start_symbol' = start /\ duration_symbols' = duration
              /\ mini_start' = mstart /\ mini_duration' = mduration
              /\ show_multiple_slots' = (multiple /\ ~rejected)
              /\ num_slots_show' = nshow
              /\ params' = IF rejected THEN UnsetParams ELSE p
              /\ pc' = IF rejected THEN "failed" ELSE "done"
              /\ error' = IF rejected THEN "StreamlitAPIException" ELSE "none"
              /\ allocation' =
                    IF ~single THEN UnsetSeq
                    ELSE CASE type = "Slot-based" -> [i \in 0..13 |-> 1]
                           [] type = "Non-slot-based" -> MarkSymbols(start, duration)
                           [] OTHER -> MarkSymbols(mstart, mduration)
              /\ colors' =
                    IF ~single THEN UnsetSeq
                    ELSE CASE type = "Slot-based" -> [i \in 0..13 |-> "blue"]
                           [] type = "Non-slot-based" -> ColorSymbols(start, duration, "green")
                           [] OTHER -> ColorSymbols(mstart, mduration, "orange")
              /\ symbol_duration_us' = IF single THEN sym_us ELSE UnsetRat
              /\ latency_us' =
                    IF ~single THEN UnsetRat
                    ELSE IF type = "Slot-based"
                         THEN RatNorm(RatMul(p.slot_duration_ms, Rat(1000, 1)))
                         ELSE LatencyUs(used, sym_us)
              /\ efficiency' = IF single THEN eff ELSE UnsetDbl
              /\ symbols_used' = IF single THEN SymbolsUsed(eff) ELSE UnsetInt
              /\ total_time_ms' =
                    IF multiple /\ ~rejected
                    THEN RatNorm(RatMul(Rat(nshow, 1), p.slot_duration_ms))
                    ELSE UnsetRat
    /\ app_mode' = "time"
    /\ Observed
    /\ UNCHANGED <<frame_vars, grid_vars, tdd_vars, call_fn, call_args, call_result,
                   dmrs_positions_default>>

\* The next interaction: the script starts again and keeps nothing of the last run
\* (what an observer recorded stays recorded)
Rerun ==
    /\ pc # "idle"
    /\ pc' = "idle" /\ app_mode' = "none" /\ error' = "none"
    /\ scs_khz' = UnsetInt /\ params' = UnsetParams
    /\ view_level' = UnsetStr /\ slot_idx' = UnsetInt /\ show_timing' = FALSE
    /\ num_rbs' = UnsetInt /\ num_symbols' = UnsetInt
    /\ show_dmrs' = FALSE /\ show_pdcch' = FALSE /\ show_pdsch' = FALSE
    /\ dmrs_type' = UnsetStr /\ dmrs_symbols' = UnsetSeq /\ coreset_duration' = UnsetInt
    /\ grid_allocation' = UnsetSeq
    /\ total_res' = UnsetInt /\ dmrs_res' = UnsetInt /\ pdcch_res' = UnsetInt
    /\ pdsch_res' = UnsetInt /\ empty_res' = UnsetInt
    /\ modulation' = UnsetStr /\ code_rate' = UnsetRat /\ mimo_layers' = UnsetInt
    /\ bits_per_symbol' = UnsetInt /\ slots_per_second' = UnsetRat
    /\ bits_per_slot' = UnsetRat /\ throughput_mbps' = UnsetRat
    /\ tdd_periodicity_ms' = UnsetRat
    /\ num_dl_slots' = UnsetInt /\ num_dl_symbols' = UnsetInt
    /\ num_ul_slots' = UnsetInt /\ num_ul_symbols' = UnsetInt
    /\ slots_in_period' = UnsetInt /\ slot_pattern' = UnsetSeq
    /\ partial' = [dl |-> UnsetInt, guard |-> UnsetInt, ul |-> UnsetInt]
    /\ chart_text' = UnsetSeq /\ colors_partial' = UnsetSeq
    /\ total_dl_symbols' = UnsetInt /\ total_ul_symbols' = UnsetInt
    /\ total_symbols' = UnsetInt
    /\ dl_pct' = UnsetDbl /\ ul_pct' = UnsetDbl /\ guard_pct' = UnsetDbl
    /\ pattern_str' = UnsetSeq /\ rendered' = << >>
    /\ alloc_type' = UnsetStr /\ start_symbol' = UnsetInt /\ duration_symbols' = UnsetInt
    /\ mini_start' = UnsetInt /\ mini_duration' = UnsetInt
    /\ show_multiple_slots' = FALSE /\ num_slots_show' = UnsetInt
    /\ allocation' = UnsetSeq /\ colors' = UnsetSeq
    /\ symbol_duration_us' = UnsetRat /\ latency_us' = UnsetRat
    /\ efficiency' = UnsetDbl /\ symbols_used' = UnsetInt /\ total_time_ms' = UnsetRat
    /\ call_fn' = "none" /\ call_args' = NoCall /\ call_result' = NoCall
    /\ dmrs_positions_default' = <<2, 11>>
    /\ first_call' = first_call

\* What every call of a helper on its own does to the state: the call and its
\* outcome are recorded
Called(fn, args, result) ==
    /\ call_fn' = fn /\ call_args' = args /\ call_result' = result
    /\ app_mode' = "call"
    /\ pc' = IF result.raised = "none" THEN "done" ELSE "failed"
    /\ error' = result.raised
    /\ Observed
    /\ UNCHANGED <<scs_khz, params, frame_vars, grid_vars, tdd_vars, time_vars>>

\* When a helper is called: by a caller that starts afresh, or (chained) by one
\* that has called helpers before and calls on in the same process
CanCall(chained) == pc = "idle" \/ (chained /\ app_mode = "call")

\* get_slot_params(scs_khz) called with an integer of ScsValues
CallSlotParamsWith(chained, ScsValues) ==
    /\ CanCall(chained)
    /\ \E scs \in ScsValues :
        Called("get_slot_params", [scs_khz |-> scs], get_slot_params(scs))
    /\ UNCHANGED dmrs_positions_default

\* get_slot_params(scs_khz) called with any integer, not only a widget's option
CallSlotParams == CallSlotParamsWith(FALSE, (0 - 1)..MaxScsKhz)

\* The lists of at most n symbol indices a caller passes for a grid of nsym
\* symbols: indices of the grid, indices past its end, and negative ones
PositionLists(nsym, n) == UNION {[1..m -> (0 - nsym - 1)..(nsym + 1)] : m \in 0..n}

\* Mutant: the function takes each index off the list as it handles it
\* (dmrs_positions.pop(0)), and leaves the list empty
PositionsAfterCallPopped(positions) == << >>

\* The list object dmrs_positions after create_dmrs_pattern has run: the function
\* iterates over it and never changes it
PositionsAfterCall(positions) == positions

\* create_dmrs_pattern(num_rbs, num_symbols, dmrs_type, dmrs_positions), or with
\* dmrs_positions omitted: the function then reads its default list object
CallDmrsPatternWith(chained, RBs, Symbols, Types, Omitted, n) ==
    /\ CanCall(chained)
    /\ \E nrb \in RBs, nsym \in Symbols, dtype \in Types, omitted \in Omitted :
        \E positions \in IF omitted THEN {dmrs_positions_default}
                                      ELSE PositionLists(nsym, n) :
            /\ Called("create_dmrs_pattern",
                      [num_rbs |-> nrb, num_symbols |-> nsym, dmrs_type |-> dtype,
                       omitted |-> omitted,
                       dmrs_positions |-> IF omitted THEN UnsetSeq ELSE positions],
                      create_dmrs_pattern(nrb, nsym, dtype, positions))
            /\ dmrs_positions_default' =
                   IF omitted THEN PositionsAfterCall(positions) ELSE dmrs_positions_default

\* The sizes the helpers are called with: negative, empty and small grids, and
\* the smallest grid of the Resource Grid module
CallRBs == (0 - 1)..MaxRBs \cup {MinRBs}

CallSymbols == (0 - 1)..MaxSymbols

CallDmrsPattern ==
    CallDmrsPatternWith(FALSE, CallRBs, CallSymbols, {"Type1", "Type2", "Type 1"},
                        BOOLEAN, MaxDmrsPositions)

\* create_dmrs_pattern called for the grids of a few resource blocks, with every
\* list of symbol indices
CallDmrsPatternLists ==
    CallDmrsPatternWith(FALSE, 0..MaxRBs, 0..MaxSymbols, {"Type1", "Type2", "Type 1"},
                        BOOLEAN, MaxDmrsPositions)

\* create_pdcch_region(num_rbs, num_symbols, coreset_duration)
CallPdcchRegionWith(chained, RBs, Symbols, Durations) ==
    /\ CanCall(chained)
    /\ \E nrb \in RBs, nsym \in Symbols, duration \in Durations :
        Called("create_pdcch_region",
               [num_rbs |-> nrb, num_symbols |-> nsym, coreset_duration |-> duration],
               create_pdcch_region(nrb, nsym, duration))
    /\ UNCHANGED dmrs_positions_default

CallPdcchRegion ==
    CallPdcchRegionWith(FALSE, CallRBs, CallSymbols, (0 - 1)..(MaxSymbols + 1))

\* What went into the last run or call, and what came out of it
LastFn == IF app_mode = "call" THEN call_fn ELSE app_mode

LastInputs ==
    CASE app_mode = "frame" -> <<scs_khz, view_level, slot_idx, show_timing>>
      [] app_mode = "grid" -> <<num_rbs, num_symbols, scs_khz, show_dmrs, show_pdcch,
                                show_pdsch, dmrs_type, dmrs_symbols, coreset_duration,
                                modulation, code_rate, mimo_layers>>
      [] app_mode = "tdd" -> <<tdd_periodicity_ms, scs_khz, num_dl_slots, num_dl_symbols,
                               num_ul_slots, num_ul_symbols>>
      [] app_mode = "time" -> <<scs_khz, alloc_type, start_symbol, duration_symbols,
                                mini_start, mini_duration, show_multiple_slots,
                                num_slots_show>>
      [] OTHER -> call_args

LastOutputs ==
    <<pc, error, params, frame_vars, grid_vars, tdd_vars, time_vars, call_result>>

\* An observer keeps the inputs and the outputs of one run or call, to compare
\* later ones with
Probe ==
    /\ pc # "idle" /\ first_call = NoCall
    /\ first_call' = [fn |-> LastFn, args |-> LastInputs, result |-> LastOutputs,
                      later |-> FALSE]
    /\ UNCHANGED <<common_vars, frame_vars, grid_vars, tdd_vars, time_vars,
                   call_fn, call_args, call_result, dmrs_positions_default>>

\* Runs and calls over a few inputs each, repeated in any order: the modules
\* with most widgets fixed, the helpers called again and again by one process
RunFrameAgain == RunFrameWith({15}, {"Symbol"})

RunGridAgain ==
    RunGridWith({1}, {1}, {30}, {TRUE}, {"64-QAM"}, {Rat(3, 4)}, {2})

RunTddAgain ==
    RunTddWith({Rat(1, 2), Rat(5, 1)}, {15, 30}, {MaxFullDlSlots - 3},
               {MaxPartialDlSymbols - 3}, {MaxUlSlots}, {MaxUlSymbols})

CallSlotParamsAgain == CallSlotParamsWith(TRUE, {15, 45})

CallDmrsPatternAgain ==
    CallDmrsPatternWith(TRUE, {1}, {MaxSymbols}, {"Type1"}, BOOLEAN, 1)

CallPdcchRegionAgain == CallPdcchRegionWith(TRUE, {1}, {MaxSymbols}, 1..MaxCoresetDuration)

\* The script, whichever module is selected
Next ==
    \/ RunFrame
    \/ RunGrid
    \/ RunGridThroughput
    \/ RunTdd
    \/ RunTime
    \/ CallSlotParams
    \/ CallDmrsPattern
    \/ CallDmrsPatternLists
    \/ CallPdcchRegion
    \/ Probe
    \/ Rerun

Spec == Init /\ [][Next]_vars

\* The script with one module selected throughout
NextFrame == RunFrame \/ Rerun

SpecFrame == Init /\ [][NextFrame]_vars

NextGrid == RunGrid \/ Rerun

SpecGrid == Init /\ [][NextGrid]_vars

NextTdd == RunTdd \/ Rerun

SpecTdd == Init /\ [][NextTdd]_vars

NextThroughput == RunGridThroughput \/ Rerun

SpecThroughput == Init /\ [][NextThroughput]_vars

NextTime == RunTime \/ Rerun

SpecTime == Init /\ [][NextTime]_vars

\* The numerology helper called on its own
NextSlotParams == CallSlotParams \/ Rerun

SpecSlotParams == Init /\ [][NextSlotParams]_vars

\* Runs and calls repeated, one of them recorded
NextRepeat ==
    \/ RunFrameAgain
    \/ RunGridAgain
    \/ RunTddAgain
    \/ CallSlotParamsAgain
    \/ CallDmrsPatternAgain
    \/ CallPdcchRegionAgain
    \/ Probe
    \/ Rerun

SpecRepeat == Init /\ [][NextRepeat]_vars

\* The mask helpers called on their own
NextMasks == CallDmrsPattern \/ CallPdcchRegion \/ Rerun

SpecMasks == Init /\ [][NextMasks]_vars

\* create_dmrs_pattern called on its own
NextDmrsLists == CallDmrsPatternLists \/ Rerun

SpecDmrsLists == Init /\ [][NextDmrsLists]_vars

----------------------------------------------------------------------------
(* Numerology *)

\* A run of any module has called get_slot_params
Resolved == pc # "idle"

\* C1: for every subcarrier spacing of 15, 30, 60, 120, 240 kHz the resolver
\* returns mu = 0, 1, 2, 3, 4, slots_per_subframe = 2^mu, slots_per_frame = 10 x
\* slots_per_subframe, slot_duration_ms = 1 / 2^mu and 14 symbols per slot.
C1_NumerologyResolved ==
    Resolved =>
        /\ scs_khz \in {15, 30, 60, 120, 240}
        /\ params.raised = "none"
        /\ scs_khz = 15 => params.mu = 0
        /\ scs_khz = 30 => params.mu = 1
        /\ scs_khz = 60 => params.mu = 2
        /\ scs_khz = 120 => params.mu = 3
        /\ scs_khz = 240 => params.mu = 4
        /\ params.slots_per_subframe = 2^(params.mu)
        /\ params.slots_per_frame = 10 * params.slots_per_subframe
        /\ params.slot_duration_ms.den # 0
        /\ RatEq(params.slot_duration_ms, Rat(1, 2^(params.mu)))
        /\ params.symbols_per_slot = 14

C1_Witness ==
    /\ pc = "done" /\ app_mode = "frame"
    /\ scs_khz = 240
    /\ params.mu = 4 /\ params.slots_per_subframe = 16 /\ params.slots_per_frame = 160

\* C2: for every mu in 0..4, slots_per_frame = 10 x 2^mu and slot_duration_ms x
\* slots_per_frame = 10: the frame lasts 10 ms whatever the numerology.
C2_FrameIsTenMs ==
    Resolved =>
        /\ params.mu \in 0..4
        /\ params.slots_per_frame = 10 * 2^(params.mu)
        /\ params.slot_duration_ms.den # 0
        /\ RatEq(RatMul(params.slot_duration_ms, Rat(params.slots_per_frame, 1)), Rat(10, 1))

C2_Witness ==
    /\ pc = "done" /\ app_mode = "frame"
    /\ params.mu = 3 /\ params.slots_per_frame = 80
    /\ params.slot_duration_ms = Rat(1, 8)

\* get_slot_params has been called on its own
SlotParamsCalled == pc # "idle" /\ call_fn = "get_slot_params"

\* C11: for every subcarrier spacing outside {15, 30, 60, 120, 240} the resolver
\* fails (the exception the code raises is KeyError) and returns no timing
\* structure: the outcome carries no mu, no slot duration and no slot count, and
\* the run ends failed.
C11_UnknownSpacingFails ==
    (SlotParamsCalled /\ call_args.scs_khz \notin {15, 30, 60, 120, 240}) =>
        /\ call_result.raised # "none"
        /\ DOMAIN call_result = {"raised"}
        /\ pc = "failed" /\ error = call_result.raised

C11_Witness ==
    /\ SlotParamsCalled
    /\ call_args.scs_khz = 45
    /\ pc = "failed" /\ error = "KeyError"

----------------------------------------------------------------------------
(* Resource grid *)

GridBuilt == pc = "done" /\ app_mode = "grid"

\* The masks of the run's configuration
DmrsMask == create_dmrs_pattern(num_rbs, num_symbols, dmrs_type, dmrs_symbols).grid

CoresetMask == create_pdcch_region(num_rbs, num_symbols, coreset_duration).grid

GridCells == (0..num_symbols - 1) \X (0..num_rbs * 12 - 1)

\* C3: the four per-classification cell counts of the statistics (Empty, PDSCH,
\* PDCCH, DMRS) sum to num_rbs x 12 x num_symbols, whichever layers are enabled.
C3_CountsSumToTotal ==
    GridBuilt =>
        /\ empty_res + pdsch_res + pdcch_res + dmrs_res = num_rbs * 12 * num_symbols
        /\ total_res = num_rbs * 12 * num_symbols

C3_Witness ==
    /\ GridBuilt
    /\ show_pdsch /\ show_pdcch /\ show_dmrs
    /\ pdsch_res > 0 /\ pdcch_res > 0 /\ dmrs_res > 0
    /\ pdsch_res + pdcch_res + dmrs_res = total_res

\* C4: every cell is classified by the precedence PDSCH < PDCCH < DMRS: DMRS (3) if
\* DMRS is enabled and the DMRS mask marks it; otherwise PDCCH (2) if PDCCH is
\* enabled and the CORESET mask marks it; otherwise PDSCH (1) if PDSCH is enabled;
\* otherwise Empty (0).
C4_Precedence ==
    GridBuilt =>
        LET dmrs == DmrsMask
            pdcch == CoresetMask
        IN /\ DOMAIN grid_allocation = 0..num_symbols - 1
           /\ \A s \in 0..num_symbols - 1 : DOMAIN grid_allocation[s] = 0..num_rbs * 12 - 1
           /\ \A c \in GridCells :
               grid_allocation[c[1]][c[2]] =
                   IF show_dmrs /\ dmrs[c[1]][c[2]] = 1 THEN 3
                   ELSE IF show_pdcch /\ pdcch[c[1]][c[2]] = 1 THEN 2
                   ELSE IF show_pdsch THEN 1
                   ELSE 0

C4_Witness ==
    /\ GridBuilt
    /\ show_pdsch /\ show_pdcch /\ show_dmrs
    /\ LET dmrs == DmrsMask
           pdcch == CoresetMask
       IN /\ \E c \in GridCells :
               grid_allocation[c[1]][c[2]] = 3 /\ pdcch[c[1]][c[2]] = 1
          /\ \E c \in GridCells :
               grid_allocation[c[1]][c[2]] = 2 /\ dmrs[c[1]][c[2]] = 0
          /\ \E c \in GridCells :
               grid_allocation[c[1]][c[2]] = 1 /\ pdcch[c[1]][c[2]] = 0

\* C5: with the DMRS layer enabled, every cell the DMRS mask marks is classified
\* DMRS, never PDSCH or PDCCH, and the DMRS count of the statistics is the number
\* of marked cells, DMRS symbols inside the CORESET rows included.
C5_DmrsPrecedence ==
    (GridBuilt /\ show_dmrs) =>
        LET dmrs == DmrsMask
        IN /\ \A c \in GridCells :
               dmrs[c[1]][c[2]] = 1 =>
                   /\ grid_allocation[c[1]][c[2]] = 3
                   /\ grid_allocation[c[1]][c[2]] \notin {1, 2}
           /\ dmrs_res = Cardinality({c \in GridCells : dmrs[c[1]][c[2]] = 1})

C5_Witness ==
    /\ GridBuilt
    /\ show_dmrs /\ show_pdcch
    /\ \E i \in DOMAIN dmrs_symbols : dmrs_symbols[i] < Min(coreset_duration, num_symbols)
    /\ \E i \in DOMAIN dmrs_symbols : dmrs_symbols[i] >= coreset_duration
    /\ dmrs_res > 0
    /\ LET dmrs == DmrsMask
       IN dmrs_res = Cardinality({c \in GridCells : dmrs[c[1]][c[2]] = 1})

----------------------------------------------------------------------------
(* TDD pattern *)

\* A run of the TDD module, ended or failed
TddRan == pc # "idle" /\ app_mode = "tdd"

\* periodicity / slot duration, as a fraction
PeriodQuotient == RatDiv(tdd_periodicity_ms, params.slot_duration_ms)

\* The quotient is a slot count: an integer >= 1
QuotientIsSlotCount ==
    /\ RatIsInt(PeriodQuotient)
    /\ PeriodQuotient.num >= PeriodQuotient.den

\* The D, X and U slots the configuration asks for
ConfiguredX == IF num_dl_symbols > 0 \/ num_ul_symbols > 0 THEN 1 ELSE 0

ConfiguredSlots == num_dl_slots + ConfiguredX + num_ul_slots

\* C6: a run whose periodicity / slot duration is not an integer >= 1 fails with
\* InvalidPeriod; the quotient is never rounded or truncated into a slot count.
\* Stated for any exception the run may end with: it fails, and what it assigned
\* to slots_in_period is not the truncated quotient.
C6_InvalidPeriodRejected ==
    (TddRan /\ ~QuotientIsSlotCount) =>
        /\ pc = "failed"
        /\ error # "none"
        /\ slots_in_period # IntTrunc(PeriodQuotient)

\* C7: a run with dl symbols + ul symbols > 14 fails with InvalidPartialSlot, so no
\* result carries a negative guard count.  Stated for any exception the run may
\* end with.
C7_NegativeGuardRejected ==
    TddRan =>
        /\ num_dl_symbols + num_ul_symbols > 14 => (pc = "failed" /\ error # "none")
        /\ (pc = "done" /\ ConfiguredX = 1) => partial.guard >= 0

\* The place of a label in the order D, X, U, F
LabelRank(label) ==
    CASE label = "D" -> 0 [] label = "X" -> 1 [] label = "U" -> 2 [] label = "F" -> 3

\* seq is of the shape D* X? U* F*
ShapeDXUF(seq) ==
    /\ \A i \in DOMAIN seq : seq[i] \in {"D", "X", "U", "F"}
    /\ \A i \in 1..Len(seq) - 1 : LabelRank(seq[i]) <= LabelRank(seq[i + 1])
    /\ Count(seq, "X") <= 1

\* C8: the label sequence is of the shape D* X? U* F*, as built and as output;
\* before truncation it holds exactly num_dl_slots D and num_ul_slots U, and one X
\* if dl symbols > 0 or ul symbols > 0, none otherwise.
C8_PatternShape ==
    TddRan =>
        /\ ShapeDXUF(slot_pattern)
        /\ ShapeDXUF(chart_text)
        /\ ShapeDXUF(pattern_str)
        /\ Count(slot_pattern, "D") = num_dl_slots
        /\ Count(slot_pattern, "U") = num_ul_slots
        /\ Count(slot_pattern, "X") = ConfiguredX

C8_Witness ==
    /\ TddRan /\ pc = "done"
    /\ num_dl_slots >= 2 /\ num_ul_slots >= 2 /\ num_dl_symbols = 0 /\ num_ul_symbols > 0
    /\ Count(pattern_str, "D") = num_dl_slots
    /\ Count(pattern_str, "X") = 1
    /\ Count(pattern_str, "U") = num_ul_slots
    /\ Count(pattern_str, "F") >= 2

\* C9: the sequence that is output has exactly slots_in_period labels, the first
\* slots_in_period of the built sequence: padded with F when the configured slots
\* are fewer, truncated when they are more; and slots_in_period is periodicity /
\* slot duration whenever that quotient is an integer >= 1.
C9_OutputLength ==
    TddRan =>
        /\ Len(chart_text) = slots_in_period
        /\ pc = "done" => (Len(pattern_str) = slots_in_period /\ pattern_str = chart_text)
        /\ \A i \in 1..slots_in_period : chart_text[i] = slot_pattern[i]
        /\ ConfiguredSlots < slots_in_period =>
               /\ Len(slot_pattern) = slots_in_period
               /\ \A i \in ConfiguredSlots + 1..slots_in_period : chart_text[i] = "F"
        /\ ConfiguredSlots > slots_in_period => Len(slot_pattern) = ConfiguredSlots
        /\ QuotientIsSlotCount =>
               RatEq(RatMul(Rat(slots_in_period, 1), params.slot_duration_ms),
                     tdd_periodicity_ms)

C9_Witness ==
    /\ TddRan /\ pc = "done"
    /\ QuotientIsSlotCount
    /\ ConfiguredSlots > slots_in_period
    /\ Len(slot_pattern) > Len(pattern_str)
    /\ Len(pattern_str) = slots_in_period
    /\ slots_in_period >= 2

\* C10: the output holds max(0, N - dl slots - x - ul slots) F labels, x being 1 if
\* a partial slot is configured and 0 otherwise; for periodicity 5 ms, 0.5 ms
\* slots, 7 DL slots, 10 DL symbols, 2 UL slots, 2 UL symbols the slot count is 10
\* and the sequence is D,D,D,D,D,D,D,X,U,U, X being D10 G2 U2, with no F.
C10_FlexibleCount ==
    TddRan =>
        /\ Count(chart_text, "F") = Max(0, slots_in_period - ConfiguredSlots)
        /\ pc = "done" => Count(pattern_str, "F") = Max(0, slots_in_period - ConfiguredSlots)
        /\ ( /\ tdd_periodicity_ms = Rat(5, 1)
             /\ params.slot_duration_ms = Rat(1, 2)
             /\ num_dl_slots = 7 /\ num_dl_symbols = 10
             /\ num_ul_slots = 2 /\ num_ul_symbols = 2 )
           => /\ pc = "done"
              /\ slots_in_period = 10
              /\ pattern_str = <<"D", "D", "D", "D", "D", "D", "D", "X", "U", "U">>
              /\ partial = [dl |-> 10, guard |-> 2, ul |-> 2]

C10_Witness ==
    /\ TddRan /\ pc = "done"
    /\ tdd_periodicity_ms = Rat(5, 1) /\ scs_khz = 30
    /\ num_dl_slots = 7 /\ num_dl_symbols = 10
    /\ num_ul_slots = 2 /\ num_ul_symbols = 2
    /\ slots_in_period = 10
    /\ Len(pattern_str) = 10 /\ Count(pattern_str, "F") = 0

\* C16: a failure is raised before any result is produced: in a run that ends in
\* an error nothing has been drawn before the error; in particular a TDD
\* configuration whose slot count is invalid draws no pattern before it fails.
C16_NothingDrawnBeforeFailure ==
    pc = "failed" => rendered = << >>

----------------------------------------------------------------------------
(* Repeated runs and calls *)

\* The last run or call had the inputs of the recorded one
SameAsRecorded ==
    /\ pc # "idle" /\ first_call # NoCall
    /\ LastFn = first_call.fn
    /\ LastInputs = first_call.args

\* C14: every function of the script (get_slot_params, create_dmrs_pattern,
\* create_pdcch_region, the grid construction with its statistics and throughput,
\* the TDD pattern) is deterministic and keeps no hidden state: a run or call
\* with the inputs of an earlier one, whatever ran in between, has the outputs of
\* the earlier one, calls that rely on create_dmrs_pattern's default position
\* list included.
C14_SameInputsSameOutputs ==
    SameAsRecorded => LastOutputs = first_call.result

\* create_dmrs_pattern was called without dmrs_positions, and later again: it
\* marked row 2, of its default list [2, 11], both times
C14_Witness ==
    /\ SameAsRecorded /\ first_call.later
    /\ call_fn = "create_dmrs_pattern" /\ call_args.omitted
    /\ pc = "done" /\ call_args.num_symbols > 2
    /\ Cardinality({k \in DOMAIN call_result.grid[2] : call_result.grid[2][k] = 1}) = 6
    /\ first_call.result = LastOutputs

----------------------------------------------------------------------------
(* Throughput estimate *)

\* A run of the Resource Grid module has shown its throughput estimate
ThroughputShown == pc = "done" /\ app_mode = "grid"

\* C12: the throughput estimate is pdsch_res x bits_per_symbol x code_rate x
\* mimo_layers x slots_per_second / 10^6 Mbps, with slots_per_second = 1000 /
\* slot_duration_ms; 600 PDSCH resource elements, 6 bits per symbol, code rate
\* 0.75, 2 layers and 2000 slots per second give 10.8 Mbps.  (Both sides of the
\* product are divided by 1000, which slots_per_second is a multiple of.)
C12_ThroughputFormula ==
    ThroughputShown =>
        /\ throughput_mbps.den > 0 /\ slots_per_second.den = 1
        /\ RatEq(RatMul(slots_per_second, params.slot_duration_ms), Rat(1000, 1))
        /\ slots_per_second.num % 1000 = 0
        /\ throughput_mbps.num * code_rate.den * 1000
             = pdsch_res * bits_per_symbol * code_rate.num * mimo_layers
                 * (slots_per_second.num \div 1000) * throughput_mbps.den
        /\ (/\ pdsch_res = 600 /\ bits_per_symbol = 6 /\ RatEq(code_rate, Rat(3, 4))
            /\ mimo_layers = 2 /\ RatEq(slots_per_second, Rat(2000, 1)))
           => RatEq(throughput_mbps, Rat(108, 10))

C12_Witness ==
    /\ ThroughputShown
    /\ num_rbs = 10 /\ num_symbols = 7 /\ coreset_duration = 2 /\ show_pdsch
    /\ pdsch_res = 600 /\ modulation = "64-QAM" /\ bits_per_symbol = 6
    /\ code_rate = Rat(15, 20) /\ mimo_layers = 2
    /\ scs_khz = 30 /\ slots_per_second = Rat(2000, 1)
    /\ throughput_mbps = Rat(54, 5)

----------------------------------------------------------------------------
(* The mask helpers *)

\* create_dmrs_pattern, or create_pdcch_region, has been called on its own
DmrsPatternCalled == pc # "idle" /\ call_fn = "create_dmrs_pattern"

PdcchRegionCalled == pc # "idle" /\ call_fn = "create_pdcch_region"

\* The call returned a grid of num_symbols rows of num_rbs * 12 cells
ReturnedMask ==
    /\ call_result.raised = "none" /\ pc = "done"
    /\ DOMAIN call_result.grid = 0..call_args.num_symbols - 1
    /\ \A s \in DOMAIN call_result.grid :
           DOMAIN call_result.grid[s] = 0..call_args.num_rbs * 12 - 1

\* C15: create_dmrs_pattern and create_pdcch_region fail when num_rbs or
\* num_symbols is negative, and return a mask, without failing, for every
\* non-negative size whatever the pattern parameters.
C15_MasksTotal ==
    (DmrsPatternCalled \/ PdcchRegionCalled) =>
        IF call_args.num_rbs < 0 \/ call_args.num_symbols < 0
        THEN call_result.raised # "none" /\ pc = "failed"
        ELSE ReturnedMask

\* The symbol indices the call was given: its dmrs_positions, or [2, 11] if the
\* argument was omitted
GivenIndices ==
    IF call_args.omitted THEN {2, 11}
    ELSE {call_args.dmrs_positions[i] : i \in DOMAIN call_args.dmrs_positions}

\* A call of create_dmrs_pattern for a grid of non-negative size with symbol
\* indices that are all non-negative
DmrsCallInDomain ==
    /\ DmrsPatternCalled
    /\ call_args.num_rbs >= 0 /\ call_args.num_symbols >= 0
    /\ \A s \in GivenIndices : s >= 0

\* The number of marked cells of a row
RowTrue(row) == Cardinality({k \in DOMAIN row : row[k] = 1})

\* The number of marked cells of a mask
MaskTrue(mask) == Cardinality({c \in (DOMAIN mask) \X (0..call_args.num_rbs * 12 - 1) :
                                 mask[c[1]][c[2]] = 1})

\* C17: create_pdcch_region(num_rbs, num_symbols, coreset_duration) marks cell
\* (s, k) if and only if s < min(coreset_duration, num_symbols), for every
\* subcarrier k; the number of marked cells is min(coreset_duration, num_symbols)
\* x num_rbs x 12 (no cell for a duration below 0), and a duration larger than
\* num_symbols raises no error.
C17_CoresetMask ==
    (PdcchRegionCalled /\ call_args.num_rbs >= 0 /\ call_args.num_symbols >= 0) =>
        LET mask == call_result.grid
            rows == Min(call_args.coreset_duration, call_args.num_symbols)
        IN /\ ReturnedMask
           /\ \A s \in DOMAIN mask : \A k \in DOMAIN mask[s] :
                 /\ mask[s][k] \in {0, 1}
                 /\ mask[s][k] = 1 <=> s < rows
           /\ MaskTrue(mask) = Max(rows, 0) * call_args.num_rbs * 12

C17_Witness ==
    /\ PdcchRegionCalled /\ pc = "done"
    /\ call_args.num_rbs = 10 /\ call_args.num_symbols = 2
    /\ call_args.coreset_duration = 3
    /\ MaskTrue(call_result.grid) = 240

\* C18: create_dmrs_pattern with Type1 marks cell (s, k) if and only if s is one
\* of the given symbol indices, s < num_symbols and k is even; every DMRS symbol
\* row holds exactly 6 x num_rbs marked cells (60 for num_rbs = 10 with the single
\* symbol 2).  The symbol indices are non-negative.
C18_Type1Mask ==
    (DmrsCallInDomain /\ call_args.dmrs_type = "Type1") =>
        LET mask == call_result.grid
            given == GivenIndices
        IN /\ ReturnedMask
           /\ \A s \in DOMAIN mask :
                 /\ \A k \in DOMAIN mask[s] :
                       /\ mask[s][k] \in {0, 1}
                       /\ mask[s][k] = 1 <=> (s \in given /\ s < call_args.num_symbols
                                                /\ k % 2 = 0)
                 /\ s \in given => RowTrue(mask[s]) = 6 * call_args.num_rbs
           /\ (/\ call_args.num_rbs = 10 /\ given = {2} /\ call_args.num_symbols > 2)
              => MaskTrue(mask) = 60

C18_Witness ==
    /\ DmrsCallInDomain /\ pc = "done"
    /\ call_args.dmrs_type = "Type1"
    /\ call_args.num_rbs = 10 /\ call_args.num_symbols = 3
    /\ call_args.dmrs_positions = <<2>>
    /\ RowTrue(call_result.grid[2]) = 60 /\ MaskTrue(call_result.grid) = 60

\* C19: create_dmrs_pattern with Type2 marks cell (s, k) if and only if s is one
\* of the given symbol indices, s < num_symbols and k mod 6 is 0 or 1; for every
\* num_rbs >= 1 each group of 6 subcarriers holds exactly 2 marked cells (the
\* boundary test sc_idx < num_rbs * 12 - 1 never drops or shortens a group), so
\* every DMRS symbol row holds exactly 4 x num_rbs marked cells (40 for num_rbs =
\* 10).  The symbol indices are non-negative.
C19_Type2Mask ==
    (DmrsCallInDomain /\ call_args.dmrs_type = "Type2") =>
        LET mask == call_result.grid
            given == GivenIndices
        IN /\ ReturnedMask
           /\ \A s \in DOMAIN mask :
                 /\ \A k \in DOMAIN mask[s] :
                       /\ mask[s][k] \in {0, 1}
                       /\ mask[s][k] = 1 <=> (s \in given /\ s < call_args.num_symbols
                                                /\ k % 6 \in {0, 1})
                 /\ s \in given =>
                       /\ \A g \in 0..2 * call_args.num_rbs - 1 :
                             Cardinality({k \in 6 * g..6 * g + 5 : mask[s][k] = 1}) = 2
                       /\ RowTrue(mask[s]) = 4 * call_args.num_rbs
           /\ (/\ call_args.num_rbs = 10 /\ given = {2} /\ call_args.num_symbols > 2)
              => MaskTrue(mask) = 40

C19_Witness ==
    /\ DmrsCallInDomain /\ pc = "done"
    /\ call_args.dmrs_type = "Type2"
    /\ call_args.num_rbs = 10 /\ call_args.num_symbols = 3
    /\ call_args.dmrs_positions = <<2>>
    /\ RowTrue(call_result.grid[2]) = 40 /\ MaskTrue(call_result.grid) = 40

\* The list of symbol indices the call was given
GivenList == IF call_args.omitted THEN <<2, 11>> ELSE call_args.dmrs_positions

\* A list of symbol indices without those at or past num_symbols
BelowEnd(positions, nsym) == SelectSeq(positions, LAMBDA s : s < nsym)

\* C20: symbol indices >= num_symbols are ignored without error: for every list
\* of indices, create_dmrs_pattern returns what it returns for the list without
\* the indices >= num_symbols, it raises nothing when the indices are
\* non-negative, and the grid construction of the Resource Grid module gives the
\* same grid for both lists.
C20_IndicesPastEndIgnored ==
    DmrsPatternCalled =>
        LET nrb == call_args.num_rbs
            nsym == call_args.num_symbols
            dtype == call_args.dmrs_type
            given == GivenList
            below == BelowEnd(given, nsym)
        IN /\ call_result = create_dmrs_pattern(nrb, nsym, dtype, below)
           /\ DmrsCallInDomain =>
                 /\ ReturnedMask
                 /\ BuildGrid(nrb, nsym, TRUE, TRUE, 2, TRUE, dtype, given)
                      = BuildGrid(nrb, nsym, TRUE, TRUE, 2, TRUE, dtype, below)

C20_Witness ==
    /\ DmrsCallInDomain /\ pc = "done"
    /\ call_args.num_rbs = 1 /\ call_args.num_symbols = 3
    /\ call_args.dmrs_type = "Type1"
    /\ call_args.dmrs_positions = <<4, 2>>
    /\ RowTrue(call_result.grid[2]) = 6 /\ MaskTrue(call_result.grid) = 6

\* C23: the PDSCH resource-element count that enters the throughput estimate is
\* the number of cells whose classification after the PDCCH and DMRS overrides is
\* PDSCH, that is, with PDSCH enabled, the cells outside the CORESET rows (if
\* PDCCH is enabled) and outside the DMRS mask (if DMRS is enabled); it is 0, and
\* the throughput is 0, when PDSCH is disabled; and it is never more than with
\* the PDCCH layer, or the DMRS layer, disabled.
C23_PdschCount ==
    GridBuilt =>
        LET dmrs == DmrsMask
            pdcch == CoresetMask
            taken(c) == \/ show_pdcch /\ pdcch[c[1]][c[2]] = 1
                        \/ show_dmrs /\ dmrs[c[1]][c[2]] = 1
        IN /\ pdsch_res = Cardinality({c \in GridCells : grid_allocation[c[1]][c[2]] = 1})
           /\ pdsch_res = IF show_pdsch
                          THEN Cardinality({c \in GridCells : ~taken(c)})
                          ELSE 0
           /\ bits_per_slot.den # 0 /\ throughput_mbps.den # 0
           /\ RatEq(bits_per_slot,
                    Rat(pdsch_res * bits_per_symbol * code_rate.num * mimo_layers,
                        code_rate.den))
           /\ ~show_pdsch => (pdsch_res = 0 /\ throughput_mbps.num = 0)
           /\ pdsch_res <= CountEq(BuildGrid(num_rbs, num_symbols, show_pdsch, FALSE,
                                            UnsetInt, show_dmrs, dmrs_type, dmrs_symbols), 1)
           /\ pdsch_res <= CountEq(BuildGrid(num_rbs, num_symbols, show_pdsch, show_pdcch,
                                            coreset_duration, FALSE, UnsetStr, UnsetSeq), 1)

C23_Witness ==
    /\ GridBuilt
    /\ show_pdsch /\ show_pdcch /\ show_dmrs
    /\ dmrs_res > 0 /\ pdcch_res > 0
    /\ pdsch_res > 0 /\ pdsch_res = total_res - pdcch_res - dmrs_res
    /\ throughput_mbps.num > 0

\* C22: the bits per symbol are 2, 4, 6, 8 for QPSK, 16-QAM, 64-QAM, 256-QAM, and
\* slots_per_second = 1000 / slot_duration_ms = 1000 x 2^mu for the numerology
\* selected.
C22_ThroughputInputs ==
    ThroughputShown =>
        /\ modulation \in {"QPSK", "16-QAM", "64-QAM", "256-QAM"}
        /\ modulation = "QPSK" => bits_per_symbol = 2
        /\ modulation = "16-QAM" => bits_per_symbol = 4
        /\ modulation = "64-QAM" => bits_per_symbol = 6
        /\ modulation = "256-QAM" => bits_per_symbol = 8
        /\ slots_per_second.den # 0 /\ params.slot_duration_ms.den # 0
        /\ RatEq(slots_per_second, RatDiv(Rat(1000, 1), params.slot_duration_ms))
        /\ RatEq(slots_per_second, Rat(1000 * 2^(params.mu), 1))

C22_Witness ==
    /\ ThroughputShown
    /\ modulation = "256-QAM" /\ bits_per_symbol = 8
    /\ scs_khz = 120 /\ params.mu = 3
    /\ slots_per_second = Rat(8000, 1)

----------------------------------------------------------------------------
(* TDD percentages *)

\* The run of the TDD module showed its percentages
PercentagesShown == pc = "done" /\ app_mode = "tdd"

\* Each percentage is the quotient of the configured symbols by 14 x
\* slots_in_period, times 100, as a double; the guard share is 100 less both
PercentagesAsComputed ==
    /\ dl_pct = DblDiv(100 * (14 * num_dl_slots + num_dl_symbols), 14 * slots_in_period)
    /\ ul_pct = DblDiv(100 * (14 * num_ul_slots + num_ul_symbols), 14 * slots_in_period)
    /\ guard_pct = DblSub(DblSub(DblFromInt(100), dl_pct), ul_pct)

\* dl_pct + ul_pct + guard_pct - 100, exactly
SumError ==
    ExactAdd(ExactAdd(ExactAdd(dl_pct, ul_pct), guard_pct), DblFromInt(0 - 100))

\* C21 as stated: the DL and UL percentages are 100 x (14 x dlSlots + dlSymbols)
\* / (14 x N) and 100 x (14 x ulSlots + ulSymbols) / (14 x N), and the DL, UL
\* and guard percentages always sum to exactly 100.
C21_SumIsExactly100 ==
    PercentagesShown => (PercentagesAsComputed /\ SumError.mag = MagZero)

\* C21, amended: the percentages are those quotients as doubles, the guard
\* percentage is 100 - DL - UL in double arithmetic, and the three sum to 100 up
\* to the rounding of the two subtractions: the sum is within 2^-42 of 100.
C21_SumIsNear100 ==
    PercentagesShown =>
        /\ PercentagesAsComputed
        /\ SumError.mag[1] = 0 /\ SumError.mag[2] = 0 /\ SumError.mag[3] = 0
        /\ SumError.mag[4] <= 2^18

\* 0.5 ms at 30 kHz, one DL and one UL symbol: 7.142857142857143 twice and
\* 85.71428571428572, which sum to 100 + 5 x 2^-49
C21_Witness ==
    /\ PercentagesShown
    /\ slots_in_period = 1 /\ total_dl_symbols = 1 /\ total_ul_symbols = 1
    /\ dl_pct = ul_pct /\ dl_pct.mag[1] = 7 /\ guard_pct.mag[1] = 85
    /\ ~SumError.neg /\ SumError.mag = <<0, 0, 0, 5 * 2^11>>

----------------------------------------------------------------------------
(* The partial slot and the symbol totals *)

\* The sequence the module outputs holds an X slot
OutputHasX == TddRan /\ Count(chart_text, "X") = 1

\* C24: whenever the output sequence holds an X slot, the split recorded for it is
\* dl = num_dl_symbols, ul = num_ul_symbols, guard = 14 - dl - ul, which add up to
\* 14, and the partial slot detail lists exactly 14 symbols: dl DL symbols, then
\* guard guard symbols, then ul UL symbols.
C24_PartialSlotCovers ==
    OutputHasX =>
        /\ partial.dl = num_dl_symbols
        /\ partial.ul = num_ul_symbols
        /\ partial.guard = 14 - num_dl_symbols - num_ul_symbols
        /\ partial.dl + partial.guard + partial.ul = 14
        /\ Len(colors_partial) = 14
        /\ \A i \in 1..Len(colors_partial) :
              colors_partial[i] =
                  IF i <= partial.dl THEN "blue"
                  ELSE IF i <= partial.dl + partial.guard THEN "yellow"
                  ELSE "green"

\* C25: for every configuration the widgets accept, the slot count is at least 1:
\* the run does not end in a division by zero and the pattern it outputs is not
\* empty.
C25_SlotCountPositive ==
    TddRan =>
        /\ slots_in_period >= 1
        /\ error # "ZeroDivisionError"
        /\ chart_text # << >>

\* x <= 100, for a double x
AtMost100(x) == x.neg \/ ~MagLess(DblFromInt(100).mag, x.mag)

\* x >= 0, for a double x
NonNegative(x) == ~x.neg \/ x.mag = MagZero

\* The DL and UL symbols of the sequence the module outputs
OutputDlSymbols ==
    14 * Count(pattern_str, "D")
    + (IF Count(pattern_str, "X") = 1 THEN num_dl_symbols ELSE 0)

OutputUlSymbols ==
    14 * Count(pattern_str, "U")
    + (IF Count(pattern_str, "X") = 1 THEN num_ul_symbols ELSE 0)

\* C26: the DL and UL totals reported are those of the sequence output, after its
\* truncation to slots_in_period slots; their sum is at most 14 * slots_in_period,
\* so each percentage is between 0 and 100 and the guard percentage is not
\* negative.
C26_TotalsOfOutput ==
    PercentagesShown =>
        /\ total_dl_symbols = OutputDlSymbols
        /\ total_ul_symbols = OutputUlSymbols
        /\ total_dl_symbols + total_ul_symbols <= 14 * slots_in_period
        /\ NonNegative(dl_pct) /\ AtMost100(dl_pct)
        /\ NonNegative(ul_pct) /\ AtMost100(ul_pct)
        /\ NonNegative(guard_pct)

----------------------------------------------------------------------------
(* The symbol indices and the type of create_dmrs_pattern *)

\* create_dmrs_pattern was called for a grid of non-negative size
DmrsCallSized ==
    DmrsPatternCalled /\ call_args.num_rbs >= 0 /\ call_args.num_symbols >= 0

\* The rows of a mask that hold a marked cell
MarkedRows(mask) == {s \in DOMAIN mask : RowTrue(mask[s]) > 0}

\* C27: every marked cell of the mask create_dmrs_pattern returns is in a row
\* whose index is in the given list; an index that is not a row of the grid, a
\* negative one included, marks no row and raises no error.
C27_MarkedRowsGiven ==
    DmrsCallSized =>
        /\ call_result.raised = "none"
        /\ MarkedRows(call_result.grid) \subseteq GivenIndices

\* The entries of a list
Entries(seq) == {seq[i] : i \in DOMAIN seq}

\* The entries of a list once each, in increasing order
SortedEntries(seq) ==
    LET S == Entries(seq)
    IN CHOOSE q \in [1..Cardinality(S) -> S] :
           \A m \in 1..Cardinality(S) - 1 : q[m] < q[m + 1]

\* The cell-wise OR of two masks
MaskOr(a, b) ==
    [s \in DOMAIN a |-> [k \in DOMAIN a[s] |-> IF a[s][k] = 1 \/ b[s][k] = 1 THEN 1 ELSE 0]]

\* C28: the outcome of create_dmrs_pattern depends only on the set of symbol
\* indices: a list gives the outcome of its entries listed once each in
\* increasing order, so every order and every repetition of the same indices
\* give the same mask; and the mask of a list is the cell-wise OR of the masks of
\* the two parts of any split of it.
C28_MaskOfIndexSet ==
    DmrsCallSized =>
        LET nrb == call_args.num_rbs
            nsym == call_args.num_symbols
            dtype == call_args.dmrs_type
            given == GivenList
        IN /\ create_dmrs_pattern(nrb, nsym, dtype, SortedEntries(given)) = call_result
           /\ call_result.raised = "none" =>
                 \A k \in 1..Len(given) - 1 :
                     LET head == create_dmrs_pattern(nrb, nsym, dtype, SubSeq(given, 1, k))
                         tail == create_dmrs_pattern(nrb, nsym, dtype,
                                                     SubSeq(given, k + 1, Len(given)))
                     IN /\ head.raised = "none" /\ tail.raised = "none"
                        /\ call_result.grid = MaskOr(head.grid, tail.grid)

\* The list [4, 1] for a grid of 3 rows: row 1 is marked, as it is for [1, 4]
C28_Witness ==
    /\ DmrsCallSized /\ pc = "done"
    /\ call_args.num_rbs = 1 /\ call_args.num_symbols = 3
    /\ call_args.dmrs_type = "Type1"
    /\ call_args.dmrs_positions = <<4, 1>>
    /\ MarkedRows(call_result.grid) = {1}
    /\ create_dmrs_pattern(1, 3, "Type1", <<1, 4>>) = call_result

\* C29: create_dmrs_pattern called, for a grid of non-negative size, with a type
\* that is neither 'Type1' nor 'Type2' (such as 'Type 1', the label of the
\* reference-signal view) raises no error and returns a mask without a marked
\* cell, and the grid built with this mask holds no DMRS cell.
C29_UnknownTypeEmptyMask ==
    (DmrsCallSized /\ call_args.dmrs_type \notin {"Type1", "Type2"}) =>
        /\ ReturnedMask
        /\ MaskTrue(call_result.grid) = 0
        /\ \A pdsch \in BOOLEAN, pdcch \in BOOLEAN :
              CountEq(BuildGrid(call_args.num_rbs, call_args.num_symbols, pdsch, pdcch, 2,
                                TRUE, call_args.dmrs_type, GivenList), 3) = 0

C29_Witness ==
    /\ DmrsCallSized /\ pc = "done"
    /\ call_args.dmrs_type = "Type 1"
    /\ call_args.num_rbs = 1 /\ call_args.num_symbols = 3
    /\ call_args.dmrs_positions = <<2, 0 - 4>>
    /\ MaskTrue(call_result.grid) = 0
    /\ CountEq(BuildGrid(1, 3, TRUE, FALSE, 2, TRUE, "Type 1", <<2, 0 - 4>>), 1) = 36

----------------------------------------------------------------------------
(* Time domain allocation *)

\* A run of the Time Domain Analysis module has shown a non-slot or mini-slot
\* allocation in its single slot
AllocationShown ==
    /\ pc = "done" /\ app_mode = "time" /\ ~show_multiple_slots
    /\ alloc_type \in {"Non-slot-based", "Mini-slot"}

\* The number of symbols marked allocated
AllocatedSymbols == Cardinality({i \in DOMAIN allocation : allocation[i] = 1})

\* The duration the widgets selected
SelectedDuration == IF alloc_type = "Mini-slot" THEN mini_duration ELSE duration_symbols

\* C30: for every mini-slot (start 0..13, duration 2, 4 or 7) and every non-slot
\* allocation (start 0..13, duration 1..14 - start) the module shows, the number
\* of symbols marked allocated in the 14-symbol slot is the selected duration,
\* which the latency, the slot efficiency and the "Symbols Used" figure are
\* computed from: no allocation is clipped at the end of the slot.
C30_AllocationMatchesDuration ==
    AllocationShown =>
        /\ DOMAIN allocation = 0..13
        /\ AllocatedSymbols = SelectedDuration
        /\ RatEq(latency_us, RatMul(Rat(AllocatedSymbols, 1), symbol_duration_us))
        /\ efficiency = DblDiv(100 * AllocatedSymbols, 14)
        /\ symbols_used = AllocatedSymbols

====
